---------------------------- MODULE Spec2Model ----------------------------
(***************************************************************************)
(* Trend detection, topic selection and image selection of the news        *)
(* backend (backend/trending.js, multi-word revision).                     *)
(*                                                                         *)
(* Text is modelled by TLA+ strings, character by character: the string    *)
(* primitives of the source (toLowerCase, includes, startsWith, split,     *)
(* the /[^a-z0-9]+/ replacement) are operators over the characters.        *)
(* Image scores are kept in half points (ScoreOf is twice the source's     *)
(* score) so that the -0.5 penalty is an integer.                          *)
(***************************************************************************)
EXTENDS Integers, Sequences, FiniteSets

VARIABLES
    op,              \* the core function the caller invoked
    argType,         \* what the caller passed where the function expects its array
    pc,              \* position inside the invoked function
    articles,        \* the caller's article array
    recentTrends,    \* the caller's recentTrends array
    trends,          \* the caller's candidate array (selectTrendingTopic sorts it in place)
    limit,           \* the limit argument of computeTrendingKeywords
    i,               \* loop index of the running for-loop
    evalLog,         \* one entry per "Evaluating keyword" iteration of the selector
    selected,        \* return value of selectTrendingTopic: <<>> is null, <<k>> is k
    result,          \* return value of computeTrendingKeywords / analyzeTrends / prepareTrendData /
                     \* cleanArticles / validateSummary
    bestImageUrl,    \* prepareTrendData local
    bestImageScore,  \* prepareTrendData local (half points)
    firstValidImage, \* prepareTrendData local
    trend,           \* the trend argument of prepareTrendData
    given,           \* the arguments as the caller passed them (history, never read by the code)
    previous,        \* what the earlier call with the same arguments returned (history)
    stored,          \* title_en of the articles getRecentArticles returns
    detected,        \* return value of detectSignificantTrends
    collection,      \* the documents of the 'articles' collection, in the order of their writes
    workflow,        \* per trigger: the position of its run between two awaits, and its locals
    activeModel,     \* module variable of the model manager: <<>> is null
    modelDetectionComplete,  \* module variable of the model manager
    calls,           \* per caller: its running or last call of detectBestModel
    hits,            \* the models returned from the cache since the last reset (history)
    summaryData,     \* the argument of validateSummary
    fetch            \* the locals of fetchFromNewsAPI and fetchLatestNews, and what they did

vars == <<op, argType, pc, articles, recentTrends, trends, limit, i, evalLog, selected,
          result, bestImageUrl, bestImageScore, firstValidImage, trend, given, previous,
          stored, detected, collection, workflow, activeModel, modelDetectionComplete,
          calls, hits, summaryData, fetch>>

\* the store and the trigger runs
store == <<collection, workflow>>

\* the model manager
manager == <<activeModel, modelDetectionComplete, calls, hits>>

\* the argument of validateSummary and the state of a fetch
inputs == <<summaryData, fetch>>

\* the variables no statement of the four functions writes
aside == <<previous, stored, detected, store, manager, inputs>>

\* the variables of the trend, image and significance computation
core == <<op, argType, pc, articles, recentTrends, trends, limit, i, evalLog, selected,
          result, bestImageUrl, bestImageScore, firstValidImage, trend, given, previous,
          stored, detected>>

-----------------------------------------------------------------------------
(* JavaScript string primitives *)

UpperChars == "ABCDEFGHIJKLMNOPQRSTUVWXYZ"
LowerChars == "abcdefghijklmnopqrstuvwxyz"
DigitChars == "0123456789"

CharAt(s, k) == SubSeq(s, k, k)

IsIn(c, chars) == \E k \in 1..Len(chars) : CharAt(chars, k) = c

LowerChar(c) ==
    IF IsIn(c, UpperChars)
    THEN CharAt(LowerChars, CHOOSE k \in 1..Len(UpperChars) : CharAt(UpperChars, k) = c)
    ELSE c

\* s.toLowerCase(), by halves
RECURSIVE ToLowerCase(_)
ToLowerCase(s) ==
    IF Len(s) <= 1 THEN LowerChar(s)
    ELSE ToLowerCase(SubSeq(s, 1, Len(s) \div 2))
           \o ToLowerCase(SubSeq(s, Len(s) \div 2 + 1, Len(s)))

Includes(s, p) ==
    \E k \in 1..(Len(s) - Len(p) + 1) : SubSeq(s, k, k + Len(p) - 1) = p

StartsWith(s, p) == Len(s) >= Len(p) /\ SubSeq(s, 1, Len(p)) = p

IsAlnum(c) == IsIn(c, LowerChars) \/ IsIn(c, DigitChars)

\* text.replace(/[^a-z0-9]+/g, ' '): every maximal run of other characters
\* becomes one space, so only the first character of a run leaves a space
ReplacedChar(s, k) ==
    IF IsAlnum(CharAt(s, k)) THEN CharAt(s, k)
    ELSE IF k > 1 /\ ~IsAlnum(CharAt(s, k - 1)) THEN ""
    ELSE " "

RECURSIVE ReplaceRange(_, _, _)
ReplaceRange(s, lo, hi) ==
    IF lo > hi THEN ""
    ELSE IF lo = hi THEN ReplacedChar(s, lo)
    ELSE ReplaceRange(s, lo, (lo + hi) \div 2) \o ReplaceRange(s, (lo + hi) \div 2 + 1, hi)

ReplaceNonAlnum(s) == ReplaceRange(s, 1, Len(s))

\* the pieces of s between the separator positions at, empty pieces included
PiecesBetween(s, at) ==
    LET n == Cardinality(at)
        \* the position of the j-th separator; 0 and Len(s) + 1 bound the string
        pos == [j \in 0..(n + 1) |->
                  IF j = 0 THEN 0
                  ELSE IF j > n THEN Len(s) + 1
                  ELSE CHOOSE k \in at : Cardinality({q \in at : q < k}) = j - 1]
    IN  [j \in 1..(n + 1) |-> SubSeq(s, pos[j - 1] + 1, pos[j] - 1)]

\* s.split(sep) for a one-character separator
Split(s, sep) == PiecesBetween(s, {k \in 1..Len(s) : CharAt(s, k) = sep})

\* parts.join(sep)
RECURSIVE Join(_, _)
Join(parts, sep) ==
    IF parts = <<>> THEN ""
    ELSE IF Len(parts) = 1 THEN parts[1]
    ELSE parts[1] \o sep \o Join(Tail(parts), sep)

\* the elements of seq at the indices of keep within lo..hi, in order
RECURSIVE FilterRange(_, _, _, _)
FilterRange(seq, keep, lo, hi) ==
    IF lo > hi THEN <<>>
    ELSE IF lo = hi THEN (IF lo \in keep THEN <<seq[lo]>> ELSE <<>>)
    ELSE FilterRange(seq, keep, lo, (lo + hi) \div 2)
           \o FilterRange(seq, keep, (lo + hi) \div 2 + 1, hi)

\* array.filter(pred), keep being the indices that satisfy pred
FilterSeq(seq, keep) == FilterRange(seq, keep, 1, Len(seq))

\* array.slice(0, n)
Slice(seq, n) == SubSeq(seq, 1, IF n < Len(seq) THEN n ELSE Len(seq))

Range(seq) == {seq[k] : k \in 1..Len(seq)}

-----------------------------------------------------------------------------
(* The static tables *)

TOPIC_KEYWORDS ==
    {"war", "conflict", "attack", "battle", "military", "defense",
     "ceasefire", "invasion", "troops", "weapon", "sanctions",
     "diplomacy", "politics", "election", "president", "nato",
     "china", "russia", "united", "states"}

STOP_WORDS ==
    {"and", "the", "of", "to", "in", "on", "is", "a", "for", "with",
     "that", "this", "are", "as", "at", "be", "by", "from", "has",
     "he", "it", "its", "may", "not", "or", "she", "was", "will",
     "would", "you", "your", "they", "them", "their", "we", "our",
     "us", "i", "me", "my", "but", "if", "so", "than", "then", "up",
     "out", "do", "go", "get", "got", "have", "had", "can",
     "could", "should", "might", "must", "shall", "about",
     "after", "against", "between", "during", "into", "through",
     "until", "before", "behind", "below", "beneath", "beside",
     "beyond", "inside", "outside", "under", "over", "above"}

GENERIC_SINGLE_WORDS ==
    {"president", "trump", "biden", "war", "conflict", "election",
     "russia", "ukraine", "china", "israel", "palestine", "nato",
     "economy", "market", "trade", "tariff", "inflation"}

\* The keys of SPECIAL_TREND_THRESHOLDS
SpecialKeys ==
   {
    "trump", "biden", "president", "white house", "usa", "us", "united", "states",
    "tariff", "tariffs", "trade", "commerce", "russia", "ukraine", "china", "putin",
    "zelensky", "israel", "palestine", "nato", "election", "vote", "campaign", "economy",
    "economic", "market", "inflation", "ukraine war", "russian offensive",
    "missile strike", "peace talks", "military aid", "donetsk", "luhansk", "crimea",
    "wagner group", "nuclear threat", "israeli airstrike", "gaza blockade", "hostage deal",
    "iranian drones", "hamas", "netanyahu", "hezbollah", "lebanon", "syria", "yemen",
    "houthi", "red sea", "taiwan", "beijing", "xi jinping", "south china sea",
    "taiwan strait", "us-china relations", "chip war", "hong kong", "xinjiang", "tibet",
    "iran", "rouhani", "ayatollah", "nuclear deal", "sanctions", "oil embargo",
    "nuclear program", "india", "modi", "parliamentary election", "kashmir", "pakistan",
    "bangladesh", "sri lanka", "sudan", "sahel", "coup", "niger", "niger junta", "mali",
    "burkina faso", "chad", "ethiopia", "somalia", "democratic republic congo", "rwanda",
    "eu", "brussels", "european union", "nato summit", "migration pact", "france",
    "macron", "germany", "scholz", "uk", "sunak", "poland", "hungary", "orban", "brics",
    "brics summit", "brics expansion", "african union", "opec", "world bank", "imf",
    "united nations", "security council", "g7", "g20", "migration crisis",
    "refugee influx", "border clashes", "peace agreement", "ceasefire", "separatist",
    "referendum", "protests", "coalition", "election fraud", "humanitarian crisis",
    "climate summit", "cyber attack", "disinformation", "artificial intelligence",
    "space race", "brazil", "lula", "venezuela", "maduro", "colombia", "mexico", "amlo",
    "argentina", "milei", "japan", "kishida", "south korea", "yoon", "north korea",
    "kim jong un", "philippines", "marcos", "vietnam", "thailand", "myanmar",
    "aung san suu kyi", "kazakhstan", "uzbekistan", "kyrgyzstan", "tajikistan",
    "turkmenistan", "azerbaijan", "armenia", "georgia", "nagorno karabakh", "serbia",
    "kosovo", "bosnia", "croatia", "montenegro", "albania", "north macedonia"   }

\* Every entry of the table carries the same pair of thresholds
SPECIAL_MIN_COUNT == 8
SPECIAL_MIN_SOURCES == 2

SPECIAL_TREND_THRESHOLDS ==
    [k \in SpecialKeys |-> [minCount |-> SPECIAL_MIN_COUNT, minSources |-> SPECIAL_MIN_SOURCES]]

\* the list with a word that has no special threshold
HOT_TOPICS_WithWar ==
    <<"trump", "russia", "ukraine", "biden", "putin", "zelensky",
      "china", "united", "states", "israel", "palestine", "nato", "usa", "war">>

HOT_TOPICS ==
    <<"trump", "russia", "ukraine", "biden", "putin", "zelensky",
      "china", "united", "states", "israel", "palestine", "nato", "usa">>

MIN_COUNT == 8
HOT_TOPIC_COUNT == 8

-----------------------------------------------------------------------------
(* Arrays of [keyword, count] pairs *)

IsMultiWord(keyword) == Includes(keyword, " ")

\* all pairs of positions of seq
Pairs(seq) == (1..Len(seq)) \X (1..Len(seq))

\* Array.prototype.sort is stable: an element goes before another when the
\* comparator says so (its pair of positions is in before), or when the
\* comparator ties and it came first
StableSort(seq, before) ==
    LET n == Len(seq)
        rank(k) == 1 + Cardinality({j \in 1..n :
                        \/ <<j, k>> \in before
                        \/ (<<k, j>> \notin before /\ j < k)})
        ranks == [k \in 1..n |-> rank(k)]
    IN  [p \in 1..n |-> seq[CHOOSE k \in 1..n : ranks[k] = p]]

\* .sort(([, a], [, b]) => b - a)
CountDescending(x, y) == x[2] > y[2]

\* the comparator of selectTrendingTopic: multi-word phrases first, then by count
MultiWordFirst(x, y) ==
    IF IsMultiWord(x[1]) /\ ~IsMultiWord(y[1]) THEN TRUE
    ELSE IF ~IsMultiWord(x[1]) /\ IsMultiWord(y[1]) THEN FALSE
    ELSE y[2] - x[2] < 0

\* seq.sort(([, a], [, b]) => b - a)
SortByCount(seq) ==
    StableSort(seq, {p \in Pairs(seq) : CountDescending(seq[p[1]], seq[p[2]])})

\* the candidates sorted by count alone
SortMultiWordFirst_CountOnly(seq) ==
    StableSort(seq, {p \in Pairs(seq) : CountDescending(seq[p[1]], seq[p[2]])})

\* trends.sort(...) of selectTrendingTopic
SortMultiWordFirst(seq) ==
    StableSort(seq, {p \in Pairs(seq) : MultiWordFirst(seq[p[1]], seq[p[2]])})

-----------------------------------------------------------------------------
(* extractWordAndPhraseCounts *)

\* `${article.title} ${article.description || ''}`.toLowerCase(), joined by ' '
CorpusText(arts) ==
    Join([k \in 1..Len(arts) |->
            ToLowerCase(arts[k].title \o " " \o arts[k].description)], " ")

\* .filter(word => word && word.length > 2)
LongWords(pieces) == FilterSeq(pieces, {k \in 1..Len(pieces) : Len(pieces[k]) > 2})

\* .replace(/[^a-z0-9]+/g, ' ').split(/\s+/).filter(...)
\* (after the replacement every whitespace run is a single space)
CorpusWords(arts) == LongWords(Split(ReplaceNonAlnum(CorpusText(arts)), " "))

generateNGrams(words, n) ==
    [k \in 1..(IF Len(words) >= n THEN Len(words) - n + 1 ELSE 0) |->
        Join(SubSeq(words, k, k + n - 1), " ")]

\* the test with the last-word condition left out
PhraseWordsCounted_FirstWordOnly(phraseWords) ==
    /\ phraseWords[1] \notin STOP_WORDS
    /\ 2 * Cardinality({k \in 1..Len(phraseWords) : phraseWords[k] \notin STOP_WORDS})
          >= Len(phraseWords)

\* every phrase counted, whatever its words
PhraseWordsCounted_Unfiltered(phraseWords) == Len(phraseWords) > 0

\* the test on phraseWords = phrase.split(' ') under which the phrase is counted
PhraseWordsCounted(phraseWords) ==
    /\ phraseWords[1] \notin STOP_WORDS
    /\ phraseWords[Len(phraseWords)] \notin STOP_WORDS
    /\ 2 * Cardinality({k \in 1..Len(phraseWords) : phraseWords[k] \notin STOP_WORDS})
          >= Len(phraseWords)

PhraseCounted(phrase) == PhraseWordsCounted(Split(phrase, " "))

\* counts[key] = (counts[key] || 0) + 1 for every key of keys in turn, on an
\* object whose keys keep their insertion order: one entry per key, placed
\* where the key first occurs, holding the number of its occurrences
CountKeys(keys) ==
    FilterSeq([k \in 1..Len(keys) |->
                 <<keys[k], Cardinality({j \in 1..Len(keys) : keys[j] = keys[k]})>>],
              {k \in 1..Len(keys) : \A j \in 1..(k - 1) : keys[j] # keys[k]})

\* words.forEach(word => { if (!STOP_WORDS.has(word)) ... })
CountedWords(words) == FilterSeq(words, {k \in 1..Len(words) : words[k] \notin STOP_WORDS})

CountedOf(ngrams) == FilterSeq(ngrams, {k \in 1..Len(ngrams) : PhraseCounted(ngrams[k])})

CountedNGrams(words, n) == CountedOf(generateNGrams(words, n))

\* the keys counted, in the order in which the function counts them
CountedKeys(words) ==
    CountedWords(words) \o CountedNGrams(words, 2) \o CountedNGrams(words, 3)
        \o CountedNGrams(words, 4)

extractWordAndPhraseCounts(arts) == CountKeys(CountedKeys(CorpusWords(arts)))

DigitValue(c) == (CHOOSE k \in 1..10 : CharAt(DigitChars, k) = c) - 1

RECURSIVE NumberOf(_)
NumberOf(key) ==
    IF key = "" THEN 0
    ELSE 10 * NumberOf(SubSeq(key, 1, Len(key) - 1)) + DigitValue(CharAt(key, Len(key)))

\* Object.entries(counts): keys that are array indices come first, in
\* ascending numeric order, the other keys follow in insertion order
IsArrayIndex(key) ==
    /\ key # ""
    /\ \A k \in 1..Len(key) : IsIn(CharAt(key, k), DigitChars)
    /\ (Len(key) > 1 => CharAt(key, 1) # "0")
    /\ Len(key) <= 9     \* (ten-digit indices below 2^32 - 1 are left out)

NumericAscending(x, y) == NumberOf(x[1]) < NumberOf(y[1])

SortNumeric(seq) ==
    StableSort(seq, {p \in Pairs(seq) : NumericAscending(seq[p[1]], seq[p[2]])})

EntriesOf(counts, idx) ==
    SortNumeric(FilterSeq(counts, idx))
        \o FilterSeq(counts, (1..Len(counts)) \ idx)

ObjectEntries(counts) ==
    EntriesOf(counts, {k \in 1..Len(counts) : IsArrayIndex(counts[k][1])})

-----------------------------------------------------------------------------
(* computeTrendingKeywords *)

isGenericSingleWord(topic) == ToLowerCase(topic) \in GENERIC_SINGLE_WORDS

\* Math.floor(0.7) * limit: the factor floored before the product
MultiWordSlots_FactorFloored(lim) == 0 * lim

\* the phrases given every slot of the limit
MultiWordSlots_WholeLimit(lim) == lim

\* Math.floor(limit * 0.7) and Math.floor(limit * 0.3)
MultiWordSlots(lim) == (7 * lim) \div 10
SingleWordSlots(lim) == (3 * lim) \div 10

\* Object.entries(counts).sort(([, a], [, b]) => b - a).slice(0, limit * 2)
topKeywordsOf(arts, lim) ==
    Slice(SortByCount(ObjectEntries(extractWordAndPhraseCounts(arts))),
          lim * 2)

singleWordsOf(topKeywords) ==
    FilterSeq(topKeywords,
              {k \in 1..Len(topKeywords) : ~IsMultiWord(topKeywords[k][1])})

multiWordPhrasesOf(topKeywords) ==
    FilterSeq(topKeywords,
              {k \in 1..Len(topKeywords) : IsMultiWord(topKeywords[k][1])})

nonGenericSingleWordsOf(singleWords) ==
    FilterSeq(singleWords,
              {k \in 1..Len(singleWords) :
                  /\ ~isGenericSingleWord(singleWords[k][1])
                  /\ singleWords[k][1] \in TOPIC_KEYWORDS})

genericSingleWordsOf(singleWords) ==
    FilterSeq(singleWords,
              {k \in 1..Len(singleWords) :
                  /\ isGenericSingleWord(singleWords[k][1])
                  /\ singleWords[k][1] \in TOPIC_KEYWORDS})

\* filtered after the two pushes
prioritized(topKeywords, lim) ==
    Slice(multiWordPhrasesOf(topKeywords), MultiWordSlots(lim))
        \o Slice(nonGenericSingleWordsOf(singleWordsOf(topKeywords)), SingleWordSlots(lim))

\* the generic single words pushed whatever the length of filtered
backfilled_Unconditional(filtered, topKeywords) ==
    filtered \o genericSingleWordsOf(singleWordsOf(topKeywords))

\* if (filtered.length < 2) filtered.push(...genericSingleWords.slice(0, 2 - filtered.length))
backfilled(filtered, topKeywords) ==
    IF Len(filtered) < 2
    THEN filtered \o Slice(genericSingleWordsOf(singleWordsOf(topKeywords)),
                           2 - Len(filtered))
    ELSE filtered

\* filtered returned without filtered.slice(0, limit)
rankedOf_NotTruncated(topKeywords, lim) ==
    SortByCount(backfilled(prioritized(topKeywords, lim), topKeywords))

\* the statements of the function after topKeywords
rankedOf(topKeywords, lim) ==
    Slice(SortByCount(backfilled(prioritized(topKeywords, lim), topKeywords)), lim)

computeTrendingKeywords(arts, lim) ==
    IF Len(arts) = 0 THEN <<>> ELSE rankedOf(topKeywordsOf(arts, lim), lim)

-----
(* selectTrendingTopic: the test applied to one candidate *)

\* recentTrends left unread
isNovel_Always(keyword, recent) == Len(keyword) >= 0

isNovel(keyword, recent) == ToLowerCase(keyword) \notin Range(recent)

\* Property names every plain object inherits from Object.prototype: the
\* lookup SPECIAL_TREND_THRESHOLDS[kw] finds them although the table does
\* not list them
ObjectPrototypeKeys ==
    {"constructor", "__proto__", "hasOwnProperty", "isPrototypeOf",
     "propertyIsEnumerable", "toLocaleString", "toString", "valueOf",
     "__defineGetter__", "__defineSetter__", "__lookupGetter__", "__lookupSetter__"}

\* const specialThreshold = SPECIAL_TREND_THRESHOLDS[kw]
\*   own:       an entry of the table
\*   inherited: a truthy value without minCount and minSources
\*   undefined: no property of that name
specialThresholdKind(kw) ==
    IF kw \in SpecialKeys THEN "own"
    ELSE IF kw \in ObjectPrototypeKeys THEN "inherited"
    ELSE "undefined"

\* articles.filter(title or description contains kw)
topicArticles(kw, arts) ==
    {k \in 1..Len(arts) :
        \/ Includes(ToLowerCase(arts[k].title), kw)
        \/ Includes(ToLowerCase(arts[k].description), kw)}

\* topicArticles.length in the place of the number of distinct sources
uniqueSourcesOf_ArticleCount(kw, arts) == Cardinality(topicArticles(kw, arts))

\* source diversity taken for granted: as many sources as any entry requires
uniqueSourcesOf_Granted(kw, arts) == SPECIAL_MIN_SOURCES + 0 * Len(arts)

\* new Set(topicArticles.map(article => article.source)).size
uniqueSourcesOf(kw, arts) == Cardinality({arts[k].source : k \in topicArticles(kw, arts)})

\* the legacy threshold of a candidate without special threshold
legacyThreshold(kw) == IF kw \in Range(HOT_TOPICS) THEN HOT_TOPIC_COUNT ELSE MIN_COUNT

\* the condition under which the loop body returns kw
meetsCriteria(kw, count, recent, arts) ==
    LET kind == specialThresholdKind(kw) IN
    IF kind = "own"
    THEN /\ count >= SPECIAL_TREND_THRESHOLDS[kw].minCount
         /\ uniqueSourcesOf(kw, arts) >= SPECIAL_TREND_THRESHOLDS[kw].minSources
         /\ isNovel(kw, recent)
    ELSE IF kind = "inherited"
    THEN FALSE     \* count >= undefined is false
    ELSE count >= legacyThreshold(kw) /\ isNovel(kw, recent)

-----------------------------------------------------------------------------
(* prepareTrendData: the tests applied to one urlToImage *)

\* a urlToImage value: t is its JavaScript type, v its text
Str(s) == [t |-> "string", v |-> s]
Undefined == [t |-> "undefined", v |-> ""]

\* the negation of the guard of the first `continue`
isUsableUrl(u) ==
    /\ u.t # "undefined" /\ u.v # ""          \* !article.urlToImage
    /\ u.t = "string"
    /\ StartsWith(u.v, "http")
    /\ ~Includes(u.v, "example.com")
    /\ ~(Len(u.v) <= 10)

watermarkIndicators ==
    <<"watermark", "logo", "brand", "copyright", "©",
      "getty", "shutterstock", "istock", "alamy", "fotolia", "depositphotos">>

\* only the first four indicators looked for
hasWatermark_NoStockHosts(lowerUrl) ==
    \E k \in 1..4 : Includes(lowerUrl, watermarkIndicators[k])

hasWatermark(lowerUrl) ==
    \E k \in 1..Len(watermarkIndicators) : Includes(lowerUrl, watermarkIndicators[k])

trustedHosts == <<"imgur.com", "flickr.com", "unsplash.com", "pexels.com">>

textIndicators == <<"text", "overlay", "caption", "label">>

\* the score of a url, in half points
ScoreOf(lowerUrl) ==
      (IF \/ Includes(lowerUrl, "large") \/ Includes(lowerUrl, "high")
          \/ Includes(lowerUrl, "hd") THEN 6 ELSE 0)
    + (IF Includes(lowerUrl, "medium") THEN 4 ELSE 0)
    + (IF Includes(lowerUrl, "small") \/ Includes(lowerUrl, "thumb") THEN 2 ELSE 0)
    + (IF \E k \in 1..Len(trustedHosts) : Includes(lowerUrl, trustedHosts[k])
       THEN 4 ELSE 0)
    - (IF \E k \in 1..Len(textIndicators) : Includes(lowerUrl, textIndicators[k])
       THEN 1 ELSE 0)

\* the loop reaches the scoring of this url
isScored(u) == isUsableUrl(u) /\ ~hasWatermark(ToLowerCase(u.v))

\* if (score > bestImageScore)
beatsBest(score, best) == score > best

\* if (!firstValidImage)
takesFirstValid(current) == current = ""

\* const selectedImage = bestImageUrl, the fallback left out
selectedImageOf_BestOnly(best, firstValid) == best

\* an image handed out only to the first call with these arguments
selectedImageOf_OnlyOnce(best, firstValid) ==
    IF previous # <<>> THEN "" ELSE IF best # "" THEN best ELSE firstValid

\* const selectedImage = bestImageUrl || firstValidImage
selectedImageOf(best, firstValid) == IF best # "" THEN best ELSE firstValid

-----------------------------------------------------------------------------
(* modelManager.js: detectSignificantTrends *)

TREND_THRESHOLD == 15
MIN_UNIQUE_SOURCES == 3
MAX_TOPICS_PER_CYCLE == 3

\* the words detectSignificantTrends looks for in the titles of recent articles
RecentTopicWords ==
    {"war", "conflict", "attack", "battle", "military", "defense", "politics",
     "election", "president", "government", "diplomacy", "sanctions", "nato",
     "ukraine", "russia", "china"}

\* title_en.toLowerCase().split(' ').find(word => [...].includes(word)), as a
\* sequence of no word (undefined) or one
TopicWordOf(title) ==
    LET words == Split(ToLowerCase(title), " ")
        found == {k \in 1..Len(words) : words[k] \in RecentTopicWords}
    IN  IF found = {} THEN <<>>
        ELSE <<words[CHOOSE k \in found : \A j \in found : k <= j]>>

\* recentArticles.map(...).filter(Boolean)
RECURSIVE recentTrendsOf(_)
recentTrendsOf(titles) ==
    IF titles = <<>> THEN <<>>
    ELSE TopicWordOf(titles[1]) \o recentTrendsOf(Tail(titles))

\* A score is kept as the fraction num / den, den = 100 * totalArticles; a
\* den of 0 stands for the division by zero of count / totalArticles.
\* frequencyScore * 0.4 + sourceDiversityScore * 0.4 + recencyScore * 0.2
calculateSignificance(count, uniqueSources, totalArticles) ==
    LET capped == IF uniqueSources < 10 THEN uniqueSources ELSE 10
    IN  [num |-> 40 * count + 4 * capped * totalArticles + 20 * totalArticles,
         den |-> 100 * totalArticles]

\* the third argument detectSignificantTrends passes: topicArticles.length
significanceDenominator(kw, arts) == Cardinality(topicArticles(kw, arts))

\* the test under which the loop pushes the candidate
isSignificant(kw, count, arts) ==
    LET kind == specialThresholdKind(kw) IN
    IF kind = "own"
    THEN /\ count >= SPECIAL_TREND_THRESHOLDS[kw].minCount
         /\ uniqueSourcesOf(kw, arts) >= SPECIAL_TREND_THRESHOLDS[kw].minSources
    ELSE IF kind = "inherited" THEN FALSE
    ELSE count >= TREND_THRESHOLD /\ uniqueSourcesOf(kw, arts) >= MIN_UNIQUE_SOURCES

\* the object pushed for a candidate
significantTrendOf(kw, count, arts) ==
    [keyword |-> kw, count |-> count,
     uniqueSources |-> uniqueSourcesOf(kw, arts),
     articles |-> topicArticles(kw, arts),
     significance |-> calculateSignificance(count, uniqueSourcesOf(kw, arts),
                                             significanceDenominator(kw, arts))]

\* significantTrends after the loop over trendAnalysis.allTrends
significantTrendsOf(allTrends, arts) ==
    LET kept == {k \in 1..Len(allTrends) :
                    isSignificant(ToLowerCase(allTrends[k][1]), allTrends[k][2], arts)}
        pushed == FilterSeq(allTrends, kept)
    IN  [k \in 1..Len(pushed) |->
            significantTrendOf(ToLowerCase(pushed[k][1]), pushed[k][2], arts)]

\* (a, b) => b.significance - a.significance puts a first when a's score is larger
MoreSignificant(a, b) ==
    a.significance.num * b.significance.den > b.significance.num * a.significance.den

SortBySignificance(seq) ==
    StableSort(seq, {p \in Pairs(seq) : MoreSignificant(seq[p[1]], seq[p[2]])})

\* topTrends
topTrendsOf(allTrends, arts) ==
    Slice(SortBySignificance(significantTrendsOf(allTrends, arts)), MAX_TOPICS_PER_CYCLE)

-----------------------------------------------------------------------------
(* The inputs of the model *)

MaxTrends == 3      \* longest candidate list handed to selectTrendingTopic
MaxArticles == 2    \* most articles in a corpus
MaxImages == 2      \* most articles handed to prepareTrendData
MaxLimit == 3       \* largest explicit limit of computeTrendingKeywords

DEFAULT_LIMIT == 20

Null == <<>>
Some(v) == <<v>>

SeqsUpTo(S, n) == UNION {[1..m -> S] : m \in 0..n}

Article(title, description, source, urlToImage) ==
    [title |-> title, description |-> description, source |-> source,
     urlToImage |-> urlToImage]

\* candidates handed to selectTrendingTopic directly
CandidatePool ==
    {<<"peace talks", 8>>, <<"front lines", 9>>, <<"trump", 9>>, <<"War", 10>>,
     <<"politics", 5>>, <<"constructor", 9>>}

\* recentTrends holds lower-cased topics
RecentPool == {<<>>, <<"war", "peace talks">>}

BbcTalks == Article("Peace talks resume", "Trump backs peace talks", "bbc", Undefined)
CnnTalks == Article("TRUMP on front lines", "War and peace talks", "cnn", Undefined)
BbcRally == Article("Trump rally", "Peace talks stall", "bbc", Undefined)

SelectorArticleSets == {<<>>, <<BbcTalks, CnnTalks>>, <<BbcTalks, BbcRally>>}

\* articles of the corpora handed to computeTrendingKeywords and analyzeTrends
CorpusPool ==
    {Article("Peace talks peace talks", "peace talks peace talks", "bbc", Undefined),
     Article("Peace talks peace talks", "peace talks peace talks", "cnn", Undefined),
     Article("Attack attack attack attack",
             "attack attack attack attack military aid", "bbc", Undefined),
     Article("War for the troops", "The war and the troops", "cnn", Undefined),
     Article("Weather", "the", "bbc", Undefined),
     Article("War in Russia", "war in russia", "bbc", Undefined)}

\* the four articles of the analyzeTrends test; they carry no source, which
\* the source-diversity test reads as one and the same value
WarUkraine ==
    Article("War war war in Ukraine continues as Russia attacks",
            "The war war war in Ukraine continues with Russian military attacks war war",
            "", Undefined)
NatoResponds ==
    Article("NATO responds to Russian aggression war war",
            "NATO military alliance responds to Russian aggression in Ukraine war war",
            "", Undefined)
BidenDiscusses ==
    Article("President Biden discusses Ukraine conflict war war",
            "US President Biden discusses the ongoing conflict in Ukraine war war",
            "", Undefined)
MoreWarNews ==
    Article("More war news from the front lines",
            "War continues as troops advance war war war", "", Undefined)

WarCorpus == <<WarUkraine, NatoResponds, BidenDiscusses, MoreWarNews>>

\* the article arrays analyzeTrends is called with
AnalyzeCorpora == SeqsUpTo(CorpusPool, MaxArticles) \cup {WarCorpus}

\* the titles of the stored articles of the last 24 hours
StoredPool ==
    {<<>>, <<"Weather improves", "PEACE Talks and WAR">>, <<"Sanctions hit oil exports">>}

\* two reports, of two sources, on one subject
BbcSanctions ==
    Article("Russia sanctions russia sanctions", "russia sanctions russia sanctions",
            "bbc", Undefined)
CnnSanctions ==
    Article("Russia sanctions russia sanctions", "russia sanctions russia sanctions",
            "cnn", Undefined)

\* the article arrays handed to detectSignificantTrends
DetectCorpora == SeqsUpTo(CorpusPool, MaxArticles) \cup {<<BbcSanctions, CnnSanctions>>}

Limits == (1..MaxLimit) \cup {DEFAULT_LIMIT}

\* urlToImage values handed to prepareTrendData
ImagePool ==
    {Str("https://a.com/large.jpg"), Str("https://b.com/high.jpg"),
     Str("https://shutterstock.com/x.jpg"), Str("https://a.com/small.jpg"),
     Str("https://a.com/photo.jpg"), Str("https://a.com/caption.jpg"),
     Str("not-a-url"), Str("https://example.com/image.jpg"), Undefined}

TrendArgs == {"war", "peace talks"}

-----------------------------------------------------------------------------
(* The 'articles' collection and the runs that write to it *)

MaxStored == 2    \* most documents in the collection
MaxTopics == 2    \* most trends one autonomous cycle hands to processTrend

\* POST /generate and the legacy cron job run generateNewsArticle, the
\* autonomous cron job runs runAutonomousProcessing
Triggers == {"generate", "legacyJob", "autonomousJob"}

Summary(title, description) == [title_en |-> title, description_en |-> description]

\* what generateSummary may hand back (the text is the language model's)
SummaryPool ==
    {Summary("Peace talks resume", "Talks resumed on Monday"),
     Summary("Peace talks resume", "Negotiators met again"),
     Summary("Front lines shift", "Talks resumed on Monday in Geneva")}

DESCRIPTION_PREFIX == 100

\* s.substring(0, n)
Substring(s, n) == SubSeq(s, 1, IF n < Len(s) THEN n ELSE Len(s))

\* titleQuery.empty
titleQueryEmpty(docs, data) ==
    \A k \in 1..Len(docs) : docs[k].title_en # data.title_en

\* descQuery.empty: no stored description lies between descriptionStart and
\* descriptionStart + '', that is, none begins with descriptionStart
descQueryEmpty(docs, data) ==
    \A k \in 1..Len(docs) :
        ~StartsWith(docs[k].description_en,
                    Substring(data.description_en, DESCRIPTION_PREFIX))

IdleRun == [pc |-> "idle", summaryData |-> Null, pending |-> 0]

\* the run after one trend is dealt with: the next trend of the cycle, or the end
Finished(run) ==
    IF run.pending > 1
    THEN [pc |-> "summarising", summaryData |-> Null, pending |-> run.pending - 1]
    ELSE IdleRun

StoreIdle ==
    /\ collection = <<>>
    /\ workflow = [t \in Triggers |-> IdleRun]

-----------------------------------------------------------------------------
(* The model manager *)

MaxCallers == 2   \* callers of detectBestModel whose calls may overlap

Callers == 1..MaxCallers

MODELS ==
    [PRIMARY |-> "gpt-4o", FALLBACK |-> "gpt-3.5-turbo",
     ALTERNATIVES |-> <<"gpt-4o-latest", "gpt-4o-mini">>]

\* the fallback tried before the alternatives
ProbeOrder_FallbackSecond == <<MODELS.PRIMARY, MODELS.FALLBACK>> \o MODELS.ALTERNATIVES

\* the models in the order detectBestModel tests them
ProbeOrder == <<MODELS.PRIMARY>> \o MODELS.ALTERNATIVES \o <<MODELS.FALLBACK>>

NoCall == [pc |-> "idle", probes |-> <<>>, answers |-> <<>>, value |-> Null]

\* modelDetectionComplete && activeModel
cacheValid == modelDetectionComplete /\ activeModel # Null

ManagerIdle ==
    /\ activeModel = Null
    /\ modelDetectionComplete = FALSE
    /\ calls = [c \in Callers |-> NoCall]
    /\ hits = {}

-----------------------------------------------------------------------------
(* fetchNews.js: cleanArticles *)

MaxRaw == 2       \* most raw articles handed to cleanArticles

JsNull == [t |-> "null", v |-> ""]

\* the value is truthy: a string that is not empty
Truthy(x) == x.t = "string" /\ x.v # ""

\* s.trim(), the white space being the space character
Trim(s) ==
    LET inked == {k \in 1..Len(s) : CharAt(s, k) # " "}
    IN  IF inked = {} THEN ""
        ELSE SubSeq(s, CHOOSE k \in inked : \A j \in inked : k <= j,
                       CHOOSE k \in inked : \A j \in inked : j <= k)

\* a raw article of the news API; source holds source.name, or null for a
\* missing source
Raw(title, description, url, publishedAt) ==
    [title |-> title, description |-> description, url |-> url,
     urlToImage |-> Undefined, source |-> Str("CNN"), publishedAt |-> publishedAt,
     content |-> Undefined]

RawPool ==
    {Raw(Str("Test Article 1"), Str("Test description 1"), Str("https://example.com/1"),
         Str("2023-01-01T00:00:00Z")),
     Raw(Str("  Test Article  "), Str("  Test description  "), Str("https://example.com"),
         Str("2023-01-01T00:00:00Z")),
     Raw(Str(""), Str("Test description 2"), Str("https://example.com/2"),
         Str("2023-01-01T00:00:00Z")),
     Raw(Str("Test Article 3"), JsNull, Str("https://example.com/3"),
         Str("2023-01-01T00:00:00Z")),
     Raw(Str("Test Article 4"), Str("Test description 4"), JsNull,
         Str("2023-01-01T00:00:00Z")),
     Raw(Str("Test Article 5"), Str("Test description 5"), Str("https://example.com/5"),
         JsNull),
     Raw(Str("   "), Str("Test description 6"), Str("https://example.com/6"),
         Str("2023-01-01T00:00:00Z")),
     Raw(Str("Test Article 7"), Str(" "), Str("https://example.com/7"),
         Str("2023-01-01T00:00:00Z"))}

\* the predicate of the filter
hasRequiredFields(article) ==
    /\ Truthy(article.title)
    /\ Truthy(article.description)
    /\ Truthy(article.url)
    /\ Truthy(article.publishedAt)

\* x || fallback
OrElse(x, fallback) == IF Truthy(x) THEN x.v ELSE fallback

\* the object the map builds
cleanedOf(article) ==
    [title |-> Trim(article.title.v),
     description |-> Trim(article.description.v),
     url |-> article.url.v,
     urlToImage |-> OrElse(article.urlToImage, ""),
     source |-> OrElse(article.source, "Unknown"),
     publishedAt |-> article.publishedAt.v,
     content |-> OrElse(article.content, "")]

cleanArticles(raw) ==
    LET kept == FilterSeq(raw, {k \in 1..Len(raw) : hasRequiredFields(raw[k])})
    IN  [k \in 1..Len(kept) |-> cleanedOf(kept[k])]

-----------------------------------------------------------------------------
(* summarizer: validateSummary *)

TITLE_MAX == 100
DESCRIPTION_MIN == 600
DESCRIPTION_MAX == 1200

\* a text of n characters, by halves
RECURSIVE TextOfLength(_)
TextOfLength(n) ==
    IF n = 0 THEN ""
    ELSE IF n = 1 THEN "a"
    ELSE TextOfLength(n \div 2) \o TextOfLength(n - n \div 2)

\* a summary: the texts are strings or undefined, the score is a number
\* (<<n>>) or undefined (<<>>)
SummaryOf(titlePl, descriptionPl, titleEn, descriptionEn, score, publishedAt) ==
    [title_pl |-> titlePl, description_pl |-> descriptionPl, title_en |-> titleEn,
     description_en |-> descriptionEn, credibility_score |-> score,
     published_at |-> publishedAt]

TextsOf(lengths) == {Str(TextOfLength(n)) : n \in lengths} \cup {Undefined}

\* the summaries handed to validateSummary, and null
SummaryArgs ==
    {Null} \cup
    {Some(SummaryOf(tp, dp, te, de, sc, pa)) :
        tp \in TextsOf({10, 101}), dp \in TextsOf({55, 600}),
        te \in TextsOf({0, 10, 100, 101}),
        de \in TextsOf({0, 9, 19, 20, 55, 599, 600, 1200, 1201}),
        sc \in {<<>>, <<0>>, <<75>>, <<100>>, <<150>>, <<-1>>},
        pa \in {Str("2024-01-01T00:00:00Z"), Undefined}}

\* !summaryData[field] is false
fieldPresent(value) ==
    IF DOMAIN value = {"t", "v"} THEN Truthy(value)
    ELSE value # <<>> /\ value[1] # 0

\* parseInt(credibility_score) is a number from 0 to 100
scoreValid(score) == score # <<>> /\ score[1] >= 0 /\ score[1] <= 100

titleValid(title) == Truthy(title) => Len(title.v) <= TITLE_MAX

descriptionValid(description) ==
    Truthy(description) =>
        Len(description.v) >= DESCRIPTION_MIN /\ Len(description.v) <= DESCRIPTION_MAX

\* validationErrors stays empty
validateSummary(s) ==
    /\ s # Null
    /\ fieldPresent(s[1].title_pl) /\ fieldPresent(s[1].description_pl)
    /\ fieldPresent(s[1].title_en) /\ fieldPresent(s[1].description_en)
    /\ fieldPresent(s[1].credibility_score) /\ fieldPresent(s[1].published_at)
    /\ scoreValid(s[1].credibility_score)
    /\ titleValid(s[1].title_en) /\ titleValid(s[1].title_pl)
    /\ descriptionValid(s[1].description_en) /\ descriptionValid(s[1].description_pl)

-----------------------------------------------------------------------------
(* fetchNews.js: fetchFromNewsAPI, and fetchLatestNews around it *)

MaxRetriesOption == 4     \* largest retries option a caller passes

DEFAULT_RETRIES == 3
MAX_RETRIES == 3

\* the error thrown for a missing key, and the value of an unassigned lastError
ConfigError == 0
NoError == -1

\* a request answers with status ok, with another status, or fails
Outcomes == {"ok", "notOk", "failed"}

\* the call waits after a failed attempt whatever its number
waitsBeforeRetry_Always(attempt, retries) == attempt <= retries

\* the call waits after a failed attempt that is not the last
waitsBeforeRetry(attempt, retries) == attempt < retries

\* The state of one fetch. mode tells whether fetchFromNewsAPI was called
\* alone or by fetchLatestNews; outcomes holds the outcome of every request,
\* log the requests and the waits in the order they happened; an error is
\* named by the number of the request that raised it.
FetchCall(mode, keyConfigured, retries) ==
    [pc |-> "called", mode |-> mode, keyConfigured |-> keyConfigured,
     retries |-> retries, attempt |-> 0, outer |-> 0, outcomes |-> <<>>,
     log |-> <<>>, lastError |-> NoError, error |-> NoError, value |-> 0]

NoFetch == [FetchCall("single", TRUE, DEFAULT_RETRIES) EXCEPT !.pc = "idle"]

FetchEnded(f) == f.pc \in {"returned", "thrown"}

\* fetchFromNewsAPI throws e: a single call ends; fetchLatestNews counts the
\* failure and waits, or gives up after MAX_RETRIES failures
innerThrows(f, e) ==
    IF f.mode = "single"
    THEN [f EXCEPT !.pc = "thrown", !.error = e]
    ELSE IF f.outer + 1 < MAX_RETRIES
         THEN [f EXCEPT !.pc = "outerWait", !.outer = f.outer + 1,
                        !.log = Append(f.log, "outerWait")]
         ELSE [f EXCEPT !.pc = "thrown", !.outer = f.outer + 1, !.error = e]

\* no validateSummary argument and no fetch under way
InputsIdle ==
    /\ summaryData = Null
    /\ fetch = NoFetch

-----------------------------------------------------------------------------
(* The state machine *)

\* What a caller may pass where an array is expected: an array, null, or a
\* value of another type (the number 42). For the last two the variable of
\* the argument holds the empty sequence and is not read.
ArgTypes == {"array", "null", "number"}

IdleCore(o, type, arts, recent, cands, lim) ==
    /\ op = o
    /\ argType = type
    /\ pc = "idle"
    /\ articles = arts
    /\ recentTrends = recent
    /\ trends = cands
    /\ limit = lim
    /\ given = [articles |-> arts, recentTrends |-> recent, trends |-> cands,
                limit |-> lim]
    /\ i = 0
    /\ evalLog = <<>>
    /\ selected = Null
    /\ result = Null
    /\ bestImageUrl = ""
    /\ bestImageScore = 0
    /\ firstValidImage = ""
    /\ previous = Null
    /\ detected = <<>>

\* a call of a core function: no run is under way and no model is detected
IdleTyped(o, type, arts, recent, cands, lim) ==
    /\ IdleCore(o, type, arts, recent, cands, lim)
    /\ StoreIdle
    /\ ManagerIdle
    /\ InputsIdle

Idle(o, arts, recent, cands, lim) == IdleTyped(o, "array", arts, recent, cands, lim)

InitSelect ==
    /\ trend = ""
    /\ stored = <<>>
    /\ \/ \E cands \in SeqsUpTo(CandidatePool, MaxTrends), recent \in RecentPool,
             arts \in SelectorArticleSets :
              Idle("select", arts, recent, cands, 0)
       \/ \E type \in ArgTypes \ {"array"}, recent \in RecentPool,
             arts \in SelectorArticleSets :
              IdleTyped("select", type, arts, recent, <<>>, 0)

InitCompute ==
    /\ trend = ""
    /\ stored = <<>>
    /\ \/ \E arts \in SeqsUpTo(CorpusPool, MaxArticles), lim \in Limits :
              Idle("compute", arts, <<>>, <<>>, lim)
       \/ \E type \in ArgTypes \ {"array"}, lim \in Limits :
              IdleTyped("compute", type, <<>>, <<>>, <<>>, lim)

InitAnalyze ==
    /\ trend = ""
    /\ stored = <<>>
    /\ \/ \E arts \in AnalyzeCorpora, recent \in RecentPool :
              Idle("analyze", arts, recent, <<>>, DEFAULT_LIMIT)
       \/ \E type \in ArgTypes \ {"array"}, recent \in RecentPool :
              IdleTyped("analyze", type, <<>>, recent, <<>>, DEFAULT_LIMIT)

InitPrepare ==
    \E t \in TrendArgs :
        /\ trend = t
        /\ stored = <<>>
        /\ \/ \E urls \in SeqsUpTo(ImagePool, MaxImages) :
                  Idle("prepare",
                       [k \in 1..Len(urls) |-> Article("Test Article", "Test description",
                                                       "bbc", urls[k])],
                       <<>>, <<>>, 0)
           \/ \E type \in ArgTypes \ {"array"} :
                  IdleTyped("prepare", type, <<>>, <<>>, <<>>, 0)

\* detectSignificantTrends(articles), with the store holding recent articles
InitDetect ==
    /\ trend = ""
    /\ stored \in StoredPool
    /\ \/ \E arts \in DetectCorpora :
              Idle("detect", arts, <<>>, <<>>, DEFAULT_LIMIT)
       \/ IdleTyped("detect", "null", <<>>, <<>>, <<>>, DEFAULT_LIMIT)


\* analyzeTrends runs on a call of its own or inside detectSignificantTrends
Analyzing == op \in {"analyze", "detect"}

\* detectSignificantTrends up to the call of analyzeTrends
DetectEnter ==
    /\ op = "detect" /\ pc = "idle"
    /\ IF argType = "null" \/ Len(articles) = 0
       THEN /\ detected' = <<>>
            /\ pc' = "detected"
            /\ UNCHANGED recentTrends
       ELSE /\ recentTrends' = recentTrendsOf(stored)
            /\ pc' = "analyzing"
            /\ UNCHANGED detected
    /\ UNCHANGED <<store, manager, inputs, previous, stored, op, argType, articles, trends, limit, i, evalLog,
                   selected, result, bestImageUrl, bestImageScore, firstValidImage,
                   given, trend>>

\* detectSignificantTrends after analyzeTrends returned
DetectFilter ==
    /\ op = "detect" /\ pc \in {"done", "caught"}
    /\ detected' = IF result = Null THEN <<>>
                   ELSE topTrendsOf(result[1].allTrends, articles)
    /\ pc' = "detected"
    /\ UNCHANGED <<store, manager, inputs, previous, stored, op, argType, articles, recentTrends, trends, limit,
                   i, evalLog, selected, result, bestImageUrl, bestImageScore,
                   firstValidImage, given, trend>>

\* the !articles guard left out: null fails at articles.length
computeEnds_NoNullGuard(type) == IF type = "array" THEN "done" ELSE "caught"

\* how computeTrendingKeywords ends for an argument of the given type: at one
\* of its return statements, or in its catch block
computeEnds(type) == IF type = "number" THEN "caught" ELSE "done"

\* computeTrendingKeywords(articles, limit), called by the caller: null takes
\* the !articles return, 42 fails at articles.map and the catch returns []
ComputeCall ==
    /\ op = "compute" /\ pc = "idle"
    /\ result' = IF argType = "array" THEN computeTrendingKeywords(articles, limit)
                 ELSE <<>>
    /\ pc' = computeEnds(argType)
    /\ UNCHANGED <<aside, op, argType, articles, recentTrends, trends, limit, i, evalLog, selected,
                   bestImageUrl, bestImageScore, firstValidImage, given, trend>>

\* analyzeTrends up to and including the trends.length === 0 return; null
\* fails at articles.length and 42 at articles.slice, and the catch returns null
AnalyzeCompute ==
    /\ \/ op = "analyze" /\ pc = "idle"
       \/ op = "detect" /\ pc = "analyzing"
    /\ IF argType # "array"
       THEN trends' = trends /\ result' = Null /\ pc' = "caught"
       ELSE /\ trends' = computeTrendingKeywords(articles, DEFAULT_LIMIT)
            /\ IF Len(trends') = 0
               THEN result' = Null /\ pc' = "done"
               ELSE result' = result /\ pc' = "computed"
    /\ UNCHANGED <<aside, op, argType, articles, recentTrends, limit, i, evalLog, selected,
                   bestImageUrl, bestImageScore, firstValidImage, given, trend>>

\* selectTrendingTopic up to the loop: the return for !trends or an empty
\* list, and the sort, which sorts the caller's array in place; 42 fails at
\* trends.sort and the catch returns null
SelectEnter ==
    /\ \/ op = "select" /\ pc = "idle"
       \/ Analyzing /\ pc = "computed"
    /\ IF op = "select" /\ argType = "number"
       THEN /\ pc' = "caught"
            /\ UNCHANGED <<trends, i>>
       ELSE IF Len(trends) = 0
       THEN /\ pc' = "exhausted"
            /\ UNCHANGED <<trends, i>>
       ELSE /\ trends' = SortMultiWordFirst(trends)
            /\ i' = 1
            /\ pc' = "scanning"
    /\ selected' = Null
    /\ UNCHANGED <<aside, op, argType, articles, recentTrends, limit, evalLog, result,
                   bestImageUrl, bestImageScore, firstValidImage, given, trend>>

\* one iteration of for (const [keyword, count] of sortedTrends)
SelectEvaluate ==
    /\ pc = "scanning" /\ i <= Len(trends)
    /\ LET kw == ToLowerCase(trends[i][1])
           count == trends[i][2]
           ok == meetsCriteria(kw, count, recentTrends, articles)
       IN  /\ evalLog' = Append(evalLog, [kw |-> kw, count |-> count, ok |-> ok])
           /\ IF ok
              THEN selected' = Some(kw) /\ pc' = "selected" /\ i' = i
              ELSE selected' = selected /\ pc' = pc /\ i' = i + 1
    /\ UNCHANGED <<aside, op, argType, articles, recentTrends, trends, limit, result,
                   bestImageUrl, bestImageScore, firstValidImage, given, trend>>

\* the loop ends without a return: return null
SelectExhausted ==
    /\ pc = "scanning" /\ i > Len(trends)
    /\ selected' = Null
    /\ pc' = "exhausted"
    /\ UNCHANGED <<aside, op, argType, articles, recentTrends, trends, limit, i, evalLog, result,
                   bestImageUrl, bestImageScore, firstValidImage, given, trend>>

\* analyzeTrends after selectTrendingTopic returned
AnalyzeReturn ==
    /\ Analyzing /\ pc \in {"selected", "exhausted"}
    /\ IF selected # Null
       THEN LET selectedTrend == selected[1]
                found == {k \in 1..Len(trends) : ToLowerCase(trends[k][1]) = selectedTrend}
                trendData == trends[CHOOSE k \in found : \A j \in found : k <= j]
                count == IF found # {} THEN trendData[2] ELSE 0
            IN  result' = Some([keyword |-> selectedTrend, count |-> count,
                                allTrends |-> trends])
       ELSE result' = Null
    /\ pc' = "done"
    /\ UNCHANGED <<aside, op, argType, articles, recentTrends, trends, limit, i, evalLog, selected,
                   bestImageUrl, bestImageScore, firstValidImage, given, trend>>

\* prepareTrendData up to the loop; null and 42 are not iterable: for...of
\* fails and the catch returns the trend with no articles and no image
PrepareEnter ==
    /\ op = "prepare" /\ pc = "idle"
    /\ bestImageUrl' = ""
    /\ bestImageScore' = 0
    /\ firstValidImage' = ""
    /\ i' = 1
    /\ IF argType # "array"
       THEN /\ result' = Some([trend |-> trend, articles |-> <<>>, image_url |-> ""])
            /\ pc' = "caught"
       ELSE /\ result' = result
            /\ pc' = "image_loop"
    /\ UNCHANGED <<aside, op, argType, articles, recentTrends, trends, limit, evalLog, selected,
                   given, trend>>

\* one iteration of for (const article of articles)
PrepareArticle ==
    /\ pc = "image_loop" /\ i <= Len(articles)
    /\ LET u == articles[i].urlToImage
           lowerUrl == ToLowerCase(u.v)
           score == ScoreOf(lowerUrl)
       IN  IF ~isUsableUrl(u) \/ hasWatermark(lowerUrl)
           THEN UNCHANGED <<bestImageUrl, bestImageScore, firstValidImage>>
           ELSE /\ firstValidImage' = IF takesFirstValid(firstValidImage)
                                      THEN u.v ELSE firstValidImage
                /\ IF beatsBest(score, bestImageScore)
                   THEN bestImageScore' = score /\ bestImageUrl' = u.v
                   ELSE UNCHANGED <<bestImageUrl, bestImageScore>>
    /\ i' = i + 1
    /\ UNCHANGED <<aside, op, argType, pc, articles, recentTrends, trends, limit, evalLog, selected,
                   result, given, trend>>

\* prepareTrendData after the loop
PrepareReturn ==
    /\ pc = "image_loop" /\ i > Len(articles)
    /\ result' = Some([trend |-> trend, articles |-> articles,
                       image_url |-> selectedImageOf(bestImageUrl, firstValidImage)])
    /\ pc' = "done"
    /\ UNCHANGED <<aside, op, argType, articles, recentTrends, trends, limit, i, evalLog, selected,
                   bestImageUrl, bestImageScore, firstValidImage, given, trend>>

\* the caller calls prepareTrendData once more, with the same arguments
PrepareAgain ==
    /\ op = "prepare" /\ pc \in {"done", "caught"} /\ previous = Null
    /\ previous' = result
    /\ result' = Null
    /\ pc' = "idle"
    /\ UNCHANGED <<store, manager, inputs, stored, detected, op, argType, articles, recentTrends, trends,
                   limit, i, evalLog, selected, bestImageUrl, bestImageScore,
                   firstValidImage, given, trend>>

-----------------------------------------------------------------------------
(* The runs of generateNewsArticle and runAutonomousProcessing, from one    *)
(* await to the next. What precedes generateSummary in a run (fetching,     *)
(* trend analysis, image selection) does not touch the collection.          *)

InitStore ==
    /\ IdleCore("store", "array", <<>>, <<>>, <<>>, 0)
    /\ trend = ""
    /\ stored = <<>>
    /\ collection \in SeqsUpTo(SummaryPool, 1)
    /\ workflow = [t \in Triggers |-> IdleRun]
    /\ ManagerIdle
    /\ InputsIdle

\* the trigger fires: the run reaches its first call of generateSummary
Trigger(t) ==
    /\ op = "store" /\ workflow[t].pc = "idle"
    /\ \E n \in 1..MaxTopics :
          /\ t # "autonomousJob" => n = 1
          /\ workflow' = [workflow EXCEPT ![t] = [pc |-> "summarising",
                                                  summaryData |-> Null,
                                                  pending |-> n]]
    /\ UNCHANGED <<core, inputs, collection, manager>>

\* generateSummary returns: an invalid summary ends the work on this trend
Summarise(t) ==
    /\ op = "store" /\ workflow[t].pc = "summarising"
    /\ \/ workflow' = [workflow EXCEPT ![t] = Finished(workflow[t])]
       \/ \E s \in SummaryPool :
              workflow' = [workflow EXCEPT ![t].pc = "checking_title",
                                           ![t].summaryData = Some(s)]
    /\ UNCHANGED <<core, inputs, collection, manager>>

\* checkDuplicate, the title query returns; a failed query is caught and
\* answers false
CheckTitle(t) ==
    /\ op = "store" /\ workflow[t].pc = "checking_title"
    /\ \E fails \in BOOLEAN :
          workflow' =
              IF fails
              THEN [workflow EXCEPT ![t].pc = "writing"]
              ELSE IF titleQueryEmpty(collection, workflow[t].summaryData[1])
                   THEN [workflow EXCEPT ![t].pc = "checking_description"]
                   ELSE [workflow EXCEPT ![t] = Finished(workflow[t])]
    /\ UNCHANGED <<core, inputs, collection, manager>>

\* checkDuplicate, the description query returns
CheckDescription(t) ==
    /\ op = "store" /\ workflow[t].pc = "checking_description"
    /\ \E fails \in BOOLEAN :
          workflow' =
              IF fails \/ descQueryEmpty(collection, workflow[t].summaryData[1])
              THEN [workflow EXCEPT ![t].pc = "writing"]
              ELSE [workflow EXCEPT ![t] = Finished(workflow[t])]
    /\ UNCHANGED <<core, inputs, collection, manager>>

\* writeArticle: db.collection('articles').add(documentData)
WriteArticle(t) ==
    /\ op = "store" /\ workflow[t].pc = "writing"
    /\ Len(collection) < MaxStored
    /\ collection' = Append(collection, workflow[t].summaryData[1])
    /\ workflow' = [workflow EXCEPT ![t] = Finished(workflow[t])]
    /\ UNCHANGED <<core, inputs, manager>>

NextStore ==
    \E t \in Triggers :
        \/ Trigger(t)
        \/ Summarise(t)
        \/ CheckTitle(t)
        \/ CheckDescription(t)
        \/ WriteArticle(t)

SpecStore == InitStore /\ [][NextStore]_vars

-----------------------------------------------------------------------------
(* detectBestModel, from one await to the next, and resetModelDetection *)

InitManager ==
    /\ IdleCore("model", "array", <<>>, <<>>, <<>>, 0)
    /\ trend = ""
    /\ stored = <<>>
    /\ StoreIdle
    /\ ManagerIdle
    /\ InputsIdle

\* a caller calls detectBestModel: the cached model is returned at once,
\* otherwise the primary model is tested
DetectCall(c) ==
    /\ op = "model" /\ calls[c].pc # "probing"
    /\ IF cacheValid
       THEN /\ calls' = [calls EXCEPT ![c] = [pc |-> "returned", probes |-> <<>>,
                                              answers |-> <<>>, value |-> activeModel]]
            /\ hits' = hits \cup {activeModel[1]}
       ELSE /\ calls' = [calls EXCEPT ![c] = [pc |-> "probing", probes |-> <<>>,
                                              answers |-> <<>>, value |-> Null]]
            /\ UNCHANGED hits
    /\ UNCHANGED <<core, inputs, store, activeModel, modelDetectionComplete>>

\* testModelAvailability of the call's next model returns
ProbeAnswer(c) ==
    /\ op = "model" /\ calls[c].pc = "probing"
    /\ \E ok \in BOOLEAN :
          LET model == ProbeOrder[Len(calls[c].probes) + 1]
              probes == Append(calls[c].probes, model)
              answers == Append(calls[c].answers, ok)
          IN  IF ok
              THEN /\ activeModel' = Some(model)
                   /\ modelDetectionComplete' = TRUE
                   /\ calls' = [calls EXCEPT ![c] = [pc |-> "returned", probes |-> probes,
                                                     answers |-> answers,
                                                     value |-> Some(model)]]
              ELSE /\ calls' = [calls EXCEPT ![c] =
                                   [pc |-> IF Len(probes) = Len(ProbeOrder)
                                           THEN "thrown" ELSE "probing",
                                    probes |-> probes, answers |-> answers,
                                    value |-> Null]]
                   /\ UNCHANGED <<activeModel, modelDetectionComplete>>
    /\ UNCHANGED <<core, inputs, store, hits>>

\* the reset clearing activeModel alone
resetModelDetection_ModelOnly ==
    /\ op = "model"
    /\ activeModel' = Null
    /\ hits' = {}
    /\ UNCHANGED <<core, inputs, store, calls, modelDetectionComplete>>

resetModelDetection ==
    /\ op = "model"
    /\ activeModel' = Null
    /\ modelDetectionComplete' = FALSE
    /\ hits' = {}
    /\ UNCHANGED <<core, inputs, store, calls>>

NextManager ==
    \/ \E c \in Callers : DetectCall(c) \/ ProbeAnswer(c)
    \/ resetModelDetection

SpecManager == InitManager /\ [][NextManager]_vars

-----------------------------------------------------------------------------
(* cleanArticles(articles) *)

InitClean ==
    /\ trend = ""
    /\ stored = <<>>
    /\ StoreIdle
    /\ ManagerIdle
    /\ InputsIdle
    /\ \/ \E raw \in SeqsUpTo(RawPool, MaxRaw) :
              IdleCore("clean", "array", raw, <<>>, <<>>, 0)
       \/ \E type \in ArgTypes \ {"array"} :
              IdleCore("clean", type, <<>>, <<>>, <<>>, 0)

CleanCall ==
    /\ op = "clean"
    /\ pc = "idle"
    /\ result' = IF argType = "array" THEN cleanArticles(articles) ELSE <<>>
    /\ pc' = "done"
    /\ UNCHANGED <<aside, op, argType, articles, recentTrends, trends, limit, i, evalLog, selected,
                   bestImageUrl, bestImageScore, firstValidImage, trend, given>>

NextClean == CleanCall

SpecClean == InitClean /\ [][NextClean]_vars

-----------------------------------------------------------------------------
(* validateSummary(summaryData) *)

InitValidate ==
    /\ trend = ""
    /\ stored = <<>>
    /\ StoreIdle
    /\ ManagerIdle
    /\ fetch = NoFetch
    /\ summaryData \in SummaryArgs
    /\ IdleCore("validate", "array", <<>>, <<>>, <<>>, 0)

ValidateCall ==
    /\ op = "validate"
    /\ pc = "idle"
    /\ result' = Some(validateSummary(summaryData))
    /\ pc' = "done"
    /\ UNCHANGED <<aside, op, argType, articles, recentTrends, trends, limit, i, evalLog, selected,
                   bestImageUrl, bestImageScore, firstValidImage, trend, given>>

NextValidate == ValidateCall

SpecValidate == InitValidate /\ [][NextValidate]_vars

-----------------------------------------------------------------------------
(* fetchFromNewsAPI(query, options) and fetchLatestNews() *)

InitFetch ==
    /\ trend = ""
    /\ stored = <<>>
    /\ StoreIdle
    /\ ManagerIdle
    /\ summaryData = Null
    /\ IdleCore("fetch", "array", <<>>, <<>>, <<>>, 0)
    /\ \E keyConfigured \in BOOLEAN :
          \/ \E retries \in 0..MaxRetriesOption :
                 fetch = FetchCall("single", keyConfigured, retries)
          \/ fetch = FetchCall("latest", keyConfigured, DEFAULT_RETRIES)

\* the key is missing: the call throws before the loop
FetchKeyMissing ==
    /\ fetch.pc = "called"
    /\ ~fetch.keyConfigured
    /\ fetch' = innerThrows(fetch, ConfigError)
    /\ UNCHANGED <<core, store, manager, summaryData>>

\* the options are read and the loop starts with attempt 1
FetchEnter ==
    /\ fetch.pc = "called"
    /\ fetch.keyConfigured
    /\ fetch' = [fetch EXCEPT !.pc = "attempt", !.attempt = 1, !.lastError = NoError]
    /\ UNCHANGED <<core, store, manager, summaryData>>

\* attempt <= retries: the request is sent
FetchRequest ==
    /\ fetch.pc = "attempt"
    /\ fetch.attempt <= fetch.retries
    /\ fetch' = [fetch EXCEPT !.pc = "request", !.log = Append(fetch.log, "request")]
    /\ UNCHANGED <<core, store, manager, summaryData>>

\* the loop is over: throw lastError
FetchExhausted ==
    /\ fetch.pc = "attempt"
    /\ fetch.attempt > fetch.retries
    /\ fetch' = innerThrows(fetch, fetch.lastError)
    /\ UNCHANGED <<core, store, manager, summaryData>>

\* the response has status ok: its articles are returned
FetchResponse ==
    /\ fetch.pc = "request"
    /\ fetch' = [fetch EXCEPT !.pc = "returned",
                              !.outcomes = Append(fetch.outcomes, "ok"),
                              !.value = Len(fetch.outcomes) + 1]
    /\ UNCHANGED <<core, store, manager, summaryData>>

\* the request fails or answers with another status: the catch of the
\* attempt keeps the error and waits if an attempt is left
FetchFailure ==
    /\ fetch.pc = "request"
    /\ \E outcome \in Outcomes \ {"ok"} :
          LET failed == [fetch EXCEPT !.outcomes = Append(fetch.outcomes, outcome),
                                      !.lastError = Len(fetch.outcomes) + 1]
          IN  fetch' = IF waitsBeforeRetry(fetch.attempt, fetch.retries)
                       THEN [failed EXCEPT !.pc = "wait",
                                           !.log = Append(fetch.log, "wait")]
                       ELSE [failed EXCEPT !.pc = "attempt",
                                           !.attempt = fetch.attempt + 1]
    /\ UNCHANGED <<core, store, manager, summaryData>>

\* retryDelay has passed: the next attempt
FetchWait ==
    /\ fetch.pc = "wait"
    /\ fetch' = [fetch EXCEPT !.pc = "attempt", !.attempt = fetch.attempt + 1]
    /\ UNCHANGED <<core, store, manager, summaryData>>

\* RETRY_DELAY has passed: fetchLatestNews calls fetchFromNewsAPI again
OuterWait ==
    /\ fetch.pc = "outerWait"
    /\ fetch' = [fetch EXCEPT !.pc = "called"]
    /\ UNCHANGED <<core, store, manager, summaryData>>

NextFetch ==
    \/ FetchKeyMissing
    \/ FetchEnter
    \/ FetchRequest
    \/ FetchExhausted
    \/ FetchResponse
    \/ FetchFailure
    \/ FetchWait
    \/ OuterWait

\* every request is answered or times out, and every timer fires
SpecFetch == InitFetch /\ [][NextFetch]_vars /\ WF_vars(NextFetch)

-----------------------------------------------------------------------------
Init ==
    \/ InitSelect \/ InitCompute \/ InitAnalyze \/ InitPrepare \/ InitDetect
    \/ InitStore \/ InitManager
    \/ InitClean \/ InitValidate \/ InitFetch

Next ==
    \/ ComputeCall
    \/ AnalyzeCompute
    \/ SelectEnter
    \/ SelectEvaluate
    \/ SelectExhausted
    \/ AnalyzeReturn
    \/ PrepareEnter
    \/ PrepareArticle
    \/ PrepareReturn
    \/ PrepareAgain
    \/ DetectEnter
    \/ DetectFilter
    \/ NextStore
    \/ NextManager
    \/ NextClean
    \/ NextValidate
    \/ NextFetch

Spec == Init /\ [][Next]_vars


-----------------------------------------------------------------------------
(* One specification for each function a caller may invoke *)

\* a call of selectTrendingTopic(trends, recentTrends, articles)
NextSelect == SelectEnter \/ SelectEvaluate \/ SelectExhausted

SpecSelect == InitSelect /\ [][NextSelect]_vars

\* a call of computeTrendingKeywords(articles, limit)
NextCompute == ComputeCall

SpecCompute == InitCompute /\ [][NextCompute]_vars

\* a call of analyzeTrends(articles, recentTrends)
NextAnalyze ==
    \/ AnalyzeCompute
    \/ SelectEnter
    \/ SelectEvaluate
    \/ SelectExhausted
    \/ AnalyzeReturn

SpecAnalyze == InitAnalyze /\ [][NextAnalyze]_vars

\* a call of prepareTrendData(articles, trend)
NextPrepare == PrepareEnter \/ PrepareArticle \/ PrepareReturn \/ PrepareAgain

SpecPrepare == InitPrepare /\ [][NextPrepare]_vars

\* a call of detectSignificantTrends(articles)
NextDetect ==
    \/ DetectEnter
    \/ AnalyzeCompute
    \/ SelectEnter
    \/ SelectEvaluate
    \/ SelectExhausted
    \/ AnalyzeReturn
    \/ DetectFilter

SpecDetect == InitDetect /\ [][NextDetect]_vars

-----------------------------------------------------------------------------
(* The qualification test as the design states it *)

\* the article mentions k in its title or in its description
Mentions(article, k) ==
    Includes(ToLowerCase(article.title), k) \/ Includes(ToLowerCase(article.description), k)

\* the number of distinct sources among the articles that mention k
DistinctSources(k, arts) ==
    Cardinality({s \in {arts[n].source : n \in 1..Len(arts)} :
                   \E n \in 1..Len(arts) : arts[n].source = s /\ Mentions(arts[n], k)})

\* k is absent from recentTrends
Novel(k, recent) == \A n \in 1..Len(recent) : recent[n] # k

\* the candidate passes the qualification test
Qualifies(cand, recent, arts) ==
    LET k == ToLowerCase(cand[1]) IN
    IF k \in DOMAIN SPECIAL_TREND_THRESHOLDS
    THEN /\ cand[2] >= SPECIAL_TREND_THRESHOLDS[k].minCount
         /\ DistinctSources(k, arts) >= SPECIAL_TREND_THRESHOLDS[k].minSources
         /\ Novel(k, recent)
    ELSE /\ cand[2] >= (IF \E n \in 1..Len(HOT_TOPICS) : HOT_TOPICS[n] = k
                        THEN HOT_TOPIC_COUNT ELSE MIN_COUNT)
         /\ Novel(k, recent)

Selecting == op \in {"select", "analyze"}

\* the candidate list selectTrendingTopic was called with
Candidates == IF op = "select" THEN given.trends ELSE trends

-----------------------------------------------------------------------------
(* Claims about selectTrendingTopic *)

\* C1: whenever selectTrendingTopic returns a keyword k, every candidate
\* scanned before k failed its qualification test, and no candidate after k
\* is evaluated.
C1_FirstQualifierWins ==
    (Selecting /\ pc = "selected") =>
        /\ Len(evalLog) = i
        /\ evalLog[i].kw = selected[1]
        /\ \A j \in 1..(i - 1) :
              ~Qualifies(trends[j], given.recentTrends, given.articles)

C3_ReturnedQualifies ==
    (Selecting /\ pc = "selected") =>
        \E j \in 1..Len(Candidates) :
            /\ ToLowerCase(Candidates[j][1]) = selected[1]
            /\ Candidates[j][2] = evalLog[Len(evalLog)].count
            /\ Qualifies(Candidates[j], given.recentTrends, given.articles)

\* a keyword with a special entry is returned after a keyword without one
\* was rejected
C3_Witness ==
    /\ op = "select" /\ pc = "selected"
    /\ selected[1] \in SpecialKeys
    /\ Len(evalLog) > 1

\* C4: selectTrendingTopic returns null only when no candidate passes its
\* qualification test: whenever some candidate qualifies the result is not null.
C4_NullOnlyIfNoneQualifies ==
    (Selecting /\ pc = "exhausted") =>
        \A j \in 1..Len(trends) :
            ~Qualifies(trends[j], given.recentTrends, given.articles)

-----------------------------------------------------------------------------
(* Claims about computeTrendingKeywords *)

\* the candidate list computeTrendingKeywords returned, where it has returned
Ranked == IF op = "compute" THEN result ELSE trends

HasRanked == (op = "compute" /\ pc = "done") \/ (op = "analyze" /\ pc = "computed")

WordsOf(text) == Split(text, " ")

StopWordsIn(text) ==
    Cardinality({n \in 1..Len(WordsOf(text)) : WordsOf(text)[n] \in STOP_WORDS})

\* C5: no candidate returned by computeTrendingKeywords has a stop-word as its
\* first or as its last word.
C5_NoStopWordEdges ==
    HasRanked =>
        \A n \in 1..Len(Ranked) :
            /\ WordsOf(Ranked[n][1])[1] \notin STOP_WORDS
            /\ WordsOf(Ranked[n][1])[Len(WordsOf(Ranked[n][1]))] \notin STOP_WORDS

\* a returned list holds a phrase with a stop-word inside and a single word
C5_Witness ==
    /\ HasRanked
    /\ \E n \in 1..Len(Ranked) : StopWordsIn(Ranked[n][1]) > 0
    /\ \E n \in 1..Len(Ranked) : Len(WordsOf(Ranked[n][1])) = 1

\* C6 as stated: every multi-word candidate has fewer than half of its words
\* in the stop-word set.
C6_FewerThanHalfStopWords ==
    HasRanked =>
        \A n \in 1..Len(Ranked) :
            Len(WordsOf(Ranked[n][1])) > 1
                => 2 * StopWordsIn(Ranked[n][1]) < Len(WordsOf(Ranked[n][1]))

\* C6 amended: every multi-word candidate has at most half of its words in
\* the stop-word set.
C6_AtMostHalfStopWords ==
    HasRanked =>
        \A n \in 1..Len(Ranked) :
            Len(WordsOf(Ranked[n][1])) > 1
                => 2 * StopWordsIn(Ranked[n][1]) <= Len(WordsOf(Ranked[n][1]))

\* a returned four-word phrase has two stop-words
C6_Witness ==
    /\ HasRanked
    /\ \E n \in 1..Len(Ranked) :
          Len(WordsOf(Ranked[n][1])) = 4 /\ StopWordsIn(Ranked[n][1]) = 2

-----------------------------------------------------------------------------
(* Claims about prepareTrendData *)

Prepared == op = "prepare" /\ pc = "done"

\* the lower-cased url contains no watermark or stock-photo indicator
NoIndicatorIn(lower) ==
    \A w \in {"watermark", "logo", "brand", "copyright", "©", "getty",
              "shutterstock", "istock", "alamy", "fotolia", "depositphotos"} :
        ~Includes(lower, w)

\* the url is syntactically valid and carries no watermark indicator
Acceptable(u) ==
    /\ u.t = "string"
    /\ StartsWith(u.v, "http")
    /\ Len(u.v) > 10
    /\ ~Includes(u.v, "example.com")
    /\ NoIndicatorIn(ToLowerCase(u.v))

AcceptableAt == {n \in 1..Len(given.articles) : Acceptable(given.articles[n].urlToImage)}

UrlAt(n) == given.articles[n].urlToImage.v

\* C7: image_url is the first url, in article order, whose score is the
\* maximum over the valid, non-rejected urls, whatever the sign of the scores;
\* it is empty only when no url was scored.
C7_FirstMaximumScore ==
    Prepared =>
        IF AcceptableAt = {} THEN result[1].image_url = ""
        ELSE \E n \in AcceptableAt :
                /\ result[1].image_url = UrlAt(n)
                /\ \A m \in AcceptableAt :
                      /\ ScoreOf(ToLowerCase(UrlAt(m))) <= ScoreOf(ToLowerCase(UrlAt(n)))
                      /\ (m < n => ScoreOf(ToLowerCase(UrlAt(m)))
                                      < ScoreOf(ToLowerCase(UrlAt(n))))

\* C8: image_url is the empty string or the urlToImage of an input article
\* that starts with http, is longer than 10 characters, does not contain
\* example.com and contains no watermark indicator.
C8_ImageIsAcceptable ==
    Prepared =>
        \/ result[1].image_url = ""
        \/ \E n \in AcceptableAt : result[1].image_url = UrlAt(n)

\* an image is returned although an earlier article carries a url that is
\* not acceptable
C8_Witness ==
    /\ Prepared
    /\ result[1].image_url # ""
    /\ 1 \notin AcceptableAt
    /\ given.articles[1].urlToImage.t = "string"

\* C9: image_url is the empty string exactly when no input article has a
\* valid, non-rejected url, and the call then returns normally, with the
\* trend and the articles it was given.
C9_EmptyIffNoneAcceptable ==
    Prepared =>
        /\ (result[1].image_url = "") <=> (AcceptableAt = {})
        /\ result[1].trend = trend
        /\ result[1].articles = given.articles

\* no article of a non-empty input has an acceptable url, and the call
\* returned the empty string
C9_Witness ==
    /\ Prepared
    /\ Len(given.articles) > 1
    /\ AcceptableAt = {}
    /\ result[1].image_url = ""

-----------------------------------------------------------------------------
(* Claims about analyzeTrends *)

\* the count paired with k in the list
CountOf(list, k) ==
    list[CHOOSE n \in 1..Len(list) :
            /\ list[n][1] = k
            /\ \A m \in 1..(n - 1) : list[m][1] # k][2]

AnalyzeAgrees(cands) ==
    /\ (result = Null) <=> (cands = <<>> \/ selected = Null)
    /\ result # Null =>
          /\ result[1].keyword = selected[1]
          /\ result[1].count = CountOf(cands, selected[1])
          /\ result[1].allTrends = cands
          /\ \A n \in 1..(Len(result[1].allTrends) - 1) :
                result[1].allTrends[n][2] >= result[1].allTrends[n + 1][2]

\* C10: analyzeTrends returns null exactly when computeTrendingKeywords gives
\* no candidate or selectTrendingTopic returns null on its list; otherwise
\* keyword is the selection, count the count paired with it, and allTrends
\* the list computeTrendingKeywords produced, in count-descending order.
C10_AnalyzeIsComposition ==
    (op = "analyze" /\ pc = "done") =>
        AnalyzeAgrees(computeTrendingKeywords(given.articles, DEFAULT_LIMIT))


-----------------------------------------------------------------------------
(* The analyzeTrends test corpus *)

AnalyzedWarCorpus ==
    /\ op = "analyze" /\ pc = "done"
    /\ given.articles = WarCorpus
    /\ given.recentTrends = <<>>

-----------------------------------------------------------------------------
(* The arguments after the call *)

\* C12: the core functions only read their inputs: the candidate sequence the
\* caller supplied keeps its elements in their order, recentTrends and the
\* articles are unchanged, and prepareTrendData's result carries the trend
\* and the articles it was given.
C12_InputsUnchanged ==
    /\ articles = given.articles
    /\ recentTrends = given.recentTrends
    /\ op = "select" => trends = given.trends
    /\ Prepared => (result[1].trend = trend /\ result[1].articles = given.articles)

-----------------------------------------------------------------------------
(* Arguments of a wrong type *)

\* the call has returned a value to its caller
Returned == pc \in {"done", "selected", "exhausted", "caught"}

\* C13: a core function invoked with an argument of a structurally wrong
\* type (a number where the array is expected) raises an error: it does not
\* return an empty sequence, null or an empty-image result.
C13_WrongTypeRaises == argType = "number" => ~Returned

\* C14: computeTrendingKeywords returns the empty sequence, without raising,
\* when articles is an empty list or null, for every limit.
C14_EmptyOrNullGivesEmpty ==
    (/\ op = "compute" /\ pc # "idle"
     /\ argType = "null" \/ (argType = "array" /\ given.articles = <<>>))
        => (pc = "done" /\ result = <<>>)

\* computeTrendingKeywords(null, limit) has returned, with a limit other
\* than the default
C14_Witness ==
    op = "compute" /\ pc = "done" /\ argType = "null" /\ limit # DEFAULT_LIMIT

-----------------------------------------------------------------------------
(* The length of the candidate list *)

\* the limit computeTrendingKeywords was called with
LimitUsed == IF op = "compute" THEN given.limit ELSE DEFAULT_LIMIT

\* C15: computeTrendingKeywords returns at most limit candidates, also when
\* the backfill with generic single words runs.
C15_AtMostLimit == HasRanked => Len(Ranked) <= LimitUsed

\* with limit 1 no slot is reserved, the backfill finds two generic single
\* words among the top keywords, and one candidate is returned
C15_Witness ==
    /\ op = "compute" /\ pc = "done" /\ given.limit = 1
    /\ Len(backfilled(<<>>, topKeywordsOf(given.articles, 1))) = 2
    /\ Len(result) = 1
    /\ isGenericSingleWord(result[1][1])

-----------------------------------------------------------------------------
(* prepareTrendData called twice *)

-----------------------------------------------------------------------------
(* Significance scores *)

\* the fraction num / den is 0.4 * (count / total) + 0.4 * min(sources / 10, 1) + 0.2
IsSignificanceOf(score, count, sources, total) ==
    /\ score.den # 0
    /\ total # 0
    /\ score.num * (100 * total)
          = (40 * count + 4 * (IF sources < 10 THEN sources ELSE 10) * total + 20 * total)
               * score.den

\* the fraction is a finite number between 0 and 1
IsUnitScore(score) == score.den > 0 /\ 0 <= score.num /\ score.num <= score.den

\* C17: every significance score computed for a qualifying topic equals
\* 0.4 * (count / totalArticlesAnalyzed) + 0.4 * min(uniqueSources / 10, 1) + 0.2,
\* the denominator being the number of articles analyzed in the cycle, and is
\* a finite number between 0 and 1.
C17_SignificanceFormula ==
    (op = "detect" /\ pc = "detected") =>
        \A k \in 1..Len(detected) :
            /\ IsSignificanceOf(detected[k].significance, detected[k].count,
                                DistinctSources(detected[k].keyword, given.articles),
                                Len(given.articles))
            /\ IsUnitScore(detected[k].significance)


-----------------------------------------------------------------------------
(* The store under interleaved runs *)

\* C18: under any interleaving of the manual /generate trigger, the legacy
\* cron job and the autonomous cycle, no document is written whose title_en
\* equals the title_en of a document already stored: the titles of the
\* collection stay pairwise different.
C18_NoDuplicateTitle ==
    \A a, b \in 1..Len(collection) :
        a # b => collection[a].title_en # collection[b].title_en

-----------------------------------------------------------------------------
(* Model detection *)

ExpectedOrder == <<"gpt-4o", "gpt-4o-latest", "gpt-4o-mini", "gpt-3.5-turbo">>

AllFalse(answers, n) == \A k \in 1..n : ~answers[k]

\* C19: a call of detectBestModel that finds no cached model tests gpt-4o,
\* gpt-4o-latest, gpt-4o-mini and gpt-3.5-turbo in this order, returns the
\* first model whose test succeeds, and throws only when all four tests
\* have failed.
C19_FirstAvailableInOrder ==
    op = "model" =>
        \A c \in Callers :
            LET call == calls[c]
                n == Len(call.probes)
            IN  /\ n <= Len(ExpectedOrder)
                /\ call.probes = SubSeq(ExpectedOrder, 1, n)
                /\ Len(call.answers) = n
                /\ call.pc = "probing" => AllFalse(call.answers, n)
                /\ (call.pc = "returned" /\ n > 0) =>
                       /\ AllFalse(call.answers, n - 1)
                       /\ call.answers[n]
                       /\ call.value = <<ExpectedOrder[n]>>
                /\ call.pc = "thrown" <=>
                       (n = Len(ExpectedOrder) /\ AllFalse(call.answers, n))

\* a call fell back to gpt-3.5-turbo after the three GPT-4 tests failed
C19_Witness ==
    \E c \in Callers :
        /\ calls[c].pc = "returned"
        /\ calls[c].answers = <<FALSE, FALSE, FALSE, TRUE>>
        /\ calls[c].value = <<"gpt-3.5-turbo">>

\* C20: once detectBestModel has succeeded, the later calls return the
\* same cached model, without a test, until resetModelDetection is called:
\* the calls answered from the cache since the last reset all returned one
\* model, and a caller answered from the cache holds the cached model.
C20_SameCachedModel ==
    op = "model" =>
        /\ Cardinality(hits) <= 1
        /\ \A c \in Callers :
               (calls[c].pc = "returned" /\ calls[c].probes = <<>>) =>
                   calls[c].value # Null

-----------------------------------------------------------------------------
(* The scan order of selectTrendingTopic *)

\* sorted holds the candidates of input with every multi-word candidate
\* before every single-word one, each group by count descending, and
\* candidates of one group and one count in their order of input
InScanOrder(sorted, input) ==
    /\ Len(sorted) = Len(input)
    /\ \E perm \in [1..Len(input) -> 1..Len(input)] :
          /\ \A p, q \in 1..Len(input) : p # q => perm[p] # perm[q]
          /\ \A p \in 1..Len(input) : sorted[p] = input[perm[p]]
          /\ \A p, q \in 1..Len(input) :
                p < q =>
                    /\ IsMultiWord(sorted[q][1]) => IsMultiWord(sorted[p][1])
                    /\ IsMultiWord(sorted[p][1]) = IsMultiWord(sorted[q][1]) =>
                           /\ sorted[p][2] >= sorted[q][2]
                           /\ sorted[p][2] = sorted[q][2] => perm[p] < perm[q]

SelectScanned ==
    /\ op = "select" /\ argType = "array" /\ Len(given.trends) > 0
    /\ pc \in {"scanning", "selected", "exhausted"}

\* C23: selectTrendingTopic scans every multi-word candidate before any
\* single-word candidate, each group by count descending with candidates of
\* equal count in their input order; so a qualifying multi-word candidate
\* is returned even when a single-word candidate with a higher count also
\* qualifies.
C23_MultiWordScannedFirst ==
    SelectScanned =>
        /\ InScanOrder(trends, given.trends)
        /\ Len(evalLog) <= Len(trends)
        /\ \A k \in 1..Len(evalLog) :
               /\ evalLog[k].kw = ToLowerCase(trends[k][1])
               /\ evalLog[k].count = trends[k][2]
        /\ (/\ pc \in {"selected", "exhausted"}
            /\ \E n \in 1..Len(given.trends) :
                  /\ IsMultiWord(given.trends[n][1])
                  /\ Qualifies(given.trends[n], given.recentTrends, given.articles))
           => (selected # Null /\ IsMultiWord(selected[1]))

\* a multi-word candidate is returned although a single-word candidate with
\* a higher count qualifies too
C23_Witness ==
    /\ SelectScanned /\ pc = "selected" /\ IsMultiWord(selected[1])
    /\ \E n, m \in 1..Len(given.trends) :
          /\ ToLowerCase(given.trends[n][1]) = selected[1]
          /\ ~IsMultiWord(given.trends[m][1])
          /\ given.trends[m][2] > given.trends[n][2]
          /\ Qualifies(given.trends[m], given.recentTrends, given.articles)

-----------------------------------------------------------------------------
(* The topics of an autonomous cycle *)

\* C24: every topic detectSignificantTrends returns passes the qualification
\* test of the topic selector, novelty included (no returned topic is in the
\* cycle's recentTrends); at most MAX_TOPICS_PER_CYCLE topics are returned,
\* by significance descending.
C24_DetectedTopicsQualify ==
    (op = "detect" /\ pc = "detected") =>
        /\ Len(detected) <= MAX_TOPICS_PER_CYCLE
        /\ \A k \in 1..Len(detected) :
               Qualifies(<<detected[k].keyword, detected[k].count>>, recentTrends,
                         given.articles)
        /\ \A p, q \in 1..Len(detected) :
               p < q => ~MoreSignificant(detected[q], detected[p])

-----------------------------------------------------------------------------
(* The slots of the ranker *)

AllCounts == ObjectEntries(extractWordAndPhraseCounts(given.articles))

\* fewer than n keys of the corpus have a count above that of entry
AmongTop(entry, counts, n) ==
    /\ \E j \in 1..Len(counts) : counts[j] = entry
    /\ Cardinality({j \in 1..Len(counts) : counts[j][2] > entry[2]}) < n

MultiWordAt(out) == {k \in 1..Len(out) : IsMultiWord(out[k][1])}

-----------------------------------------------------------------------------
(* selectTrendingTopic without articles *)

HasSpecialEntry(k) == k \in DOMAIN SPECIAL_TREND_THRESHOLDS

\* C26: called with an empty articles argument, selectTrendingTopic never
\* returns a candidate that has an entry in the special threshold table,
\* whatever its count: its number of sources is 0 and every entry requires
\* at least 2.
C26_NoSpecialTopicWithoutArticles ==
    (op = "select" /\ given.articles = <<>> /\ pc = "selected") =>
        /\ ~HasSpecialEntry(selected[1])
        /\ \A k \in DOMAIN SPECIAL_TREND_THRESHOLDS :
               SPECIAL_TREND_THRESHOLDS[k].minSources >= 2

\* a novel candidate with an entry and a sufficient count was passed over,
\* and a candidate without entry was returned
C26_Witness ==
    /\ op = "select" /\ given.articles = <<>> /\ pc = "selected"
    /\ ~HasSpecialEntry(selected[1])
    /\ \E k \in 1..Len(evalLog) :
          /\ HasSpecialEntry(evalLog[k].kw)
          /\ evalLog[k].count >= SPECIAL_TREND_THRESHOLDS[evalLog[k].kw].minCount
          /\ Novel(evalLog[k].kw, given.recentTrends)
          /\ ~evalLog[k].ok

-----------------------------------------------------------------------------
(* The hot-topic threshold *)

-----------------------------------------------------------------------------
(* The backfill of the ranker *)

GenericAt(out) == {k \in 1..Len(out) : out[k][1] \in GENERIC_SINGLE_WORDS}

-----------------------------------------------------------------------------
(* The two variables of the model manager *)

\* C29: in every reachable state of the model manager, however the calls of
\* detectBestModel, createCompletion and resetModelDetection interleave at
\* their awaits, modelDetectionComplete is true exactly when activeModel is
\* not null, and activeModel is null or one of the four configured names.
C29_FlagMatchesModel ==
    /\ modelDetectionComplete <=> activeModel # Null
    /\ activeModel # Null =>
           activeModel[1] \in {"gpt-4o", "gpt-4o-latest", "gpt-4o-mini", "gpt-3.5-turbo"}

\* a model is cached while another call is still testing
C29_Witness ==
    /\ activeModel # Null /\ modelDetectionComplete
    /\ \E c \in Callers : calls[c].pc = "probing" /\ Len(calls[c].probes) > 0

-----------------------------------------------------------------------------
(* The articles cleanArticles returns *)

Cleaned == op = "clean" /\ pc = "done" /\ argType = "array"

\* the raw article has no title, description, url or publishedAt
LacksField(article) ==
    \E value \in {article.title, article.description, article.url, article.publishedAt} :
        value.t # "string" \/ value.v = ""

NoSurroundingSpace(s) == s = "" \/ (CharAt(s, 1) # " " /\ CharAt(s, Len(s)) # " ")

\* C21: every article cleanArticles returns has a non-empty title,
\* description, url and publishedAt, its title and description carry no
\* surrounding white space, and the raw articles lacking one of the four
\* fields are dropped: as many articles are returned as raw articles have
\* all four.
C21_CleanedFieldsNonEmpty ==
    Cleaned =>
        /\ \A k \in 1..Len(result) :
              /\ result[k].title # "" /\ result[k].description # ""
              /\ result[k].url # "" /\ result[k].publishedAt # ""
              /\ NoSurroundingSpace(result[k].title)
              /\ NoSurroundingSpace(result[k].description)
        /\ Len(result) = Cardinality({k \in 1..Len(articles) : ~LacksField(articles[k])})

-----------------------------------------------------------------------------
(* The summaries validateSummary accepts *)

Validated == op = "validate" /\ pc = "done"

\* the text is present and not empty
TextGiven(x) == x.t = "string" /\ x.v # ""

\* the six required fields of the summary are present and not empty
SixFieldsGiven(s) ==
    /\ TextGiven(s.title_pl) /\ TextGiven(s.description_pl)
    /\ TextGiven(s.title_en) /\ TextGiven(s.description_en)
    /\ TextGiven(s.published_at)
    /\ s.credibility_score # <<>>

ScoreWithin(s) == s.credibility_score[1] >= 0 /\ s.credibility_score[1] <= 100

TitlesWithin(s) == Len(s.title_pl.v) <= 100 /\ Len(s.title_en.v) <= 100

DescriptionsWithin(s, least) ==
    /\ Len(s.description_pl.v) >= least /\ Len(s.description_pl.v) <= 1200
    /\ Len(s.description_en.v) >= least /\ Len(s.description_en.v) <= 1200

\* C22: validateSummary returns true for every summary whose six required
\* fields are present, whose score lies in 0..100, whose titles have at most
\* 100 characters and whose two descriptions have 20 to 1200 characters; it
\* returns false for null, for a missing or empty required field, for a score
\* outside 0..100, for a title of more than 100 characters and for a
\* description of fewer than 20.
C22_ValidFromTwentyCharacters ==
    Validated =>
        IF summaryData = Null THEN result = Some(FALSE)
        ELSE LET s == summaryData[1]
             IN  /\ (SixFieldsGiven(s) /\ ScoreWithin(s) /\ TitlesWithin(s)
                        /\ DescriptionsWithin(s, 20)) => result = Some(TRUE)
                 /\ (~SixFieldsGiven(s) \/ ~ScoreWithin(s) \/ ~TitlesWithin(s)
                        \/ Len(s.description_pl.v) < 20 \/ Len(s.description_en.v) < 20)
                        => result = Some(FALSE)

-----------------------------------------------------------------------------
(* The requests of one fetch *)

EventsOf(f, event) == {k \in 1..Len(f.log) : f.log[k] = event}

Requests(f) == Cardinality(EventsOf(f, "request"))

\* the most requests the fetch may send
RequestLimit(f) ==
    IF f.mode = "single" THEN f.retries ELSE MAX_RETRIES * DEFAULT_RETRIES

\* a request is sent only while no response had status ok
OnlyLastSucceeds(f) == \A k \in 1..Len(f.outcomes) - 1 : f.outcomes[k] # "ok"

\* a wait of retryDelay stands between two requests
WaitsBetweenAttempts(f) ==
    /\ \A k \in EventsOf(f, "wait") :
          /\ k > 1 /\ f.log[k - 1] = "request"
          /\ k < Len(f.log) => f.log[k + 1] = "request"
    /\ FetchEnded(f) /\ f.log # <<>> => f.log[Len(f.log)] # "wait"

\* the call returns the articles of the response with status ok, the last
\* request sent
ReturnsFirstSuccess(f) ==
    f.pc = "returned" =>
        /\ f.outcomes # <<>> /\ f.outcomes[Len(f.outcomes)] = "ok"
        /\ f.value = Len(f.outcomes)
        /\ Requests(f) = Len(f.outcomes)

\* the call throws the error of the last attempt; without the key it throws
\* before any request
ThrowsLastError(f) ==
    f.pc = "thrown" =>
        /\ \A k \in 1..Len(f.outcomes) : f.outcomes[k] # "ok"
        /\ f.keyConfigured /\ f.retries >= 1 =>
               f.error = Len(f.outcomes) /\ Requests(f) = RequestLimit(f)
        /\ ~f.keyConfigured => f.error = ConfigError /\ Requests(f) = 0

\* C30: a call of fetchFromNewsAPI ends, having sent at most `retries`
\* requests (3 by default); it returns the articles of the first response
\* with status ok and sends no request after it, waits only between two
\* attempts and never after the last, and otherwise throws the error of the
\* last attempt. fetchLatestNews calls it at most MAX_RETRIES times, so one
\* fetch of the latest news ends after at most MAX_RETRIES * 3 requests.
C30_FetchEndsWithinRetries ==
    /\ [](op = "fetch" =>
              /\ Requests(fetch) <= RequestLimit(fetch)
              /\ fetch.outer <= MAX_RETRIES
              /\ OnlyLastSucceeds(fetch)
              /\ WaitsBetweenAttempts(fetch)
              /\ ReturnsFirstSuccess(fetch)
              /\ ThrowsLastError(fetch))
    /\ <>(op = "fetch" => FetchEnded(fetch))

\* fetchLatestNews gave up after MAX_RETRIES calls of three failed requests
\* each, the waits lying between the attempts
C30_Witness ==
    /\ op = "fetch" /\ fetch.mode = "latest" /\ fetch.pc = "thrown"
    /\ Requests(fetch) = MAX_RETRIES * DEFAULT_RETRIES
    /\ Cardinality(EventsOf(fetch, "wait")) = MAX_RETRIES * (DEFAULT_RETRIES - 1)

\* a single call returned the articles of its third request
C30_WitnessReturned ==
    /\ op = "fetch" /\ fetch.mode = "single" /\ fetch.pc = "returned"
    /\ fetch.value = 3 /\ Cardinality(EventsOf(fetch, "wait")) = 2
=============================================================================
